---- MODULE Spec2Model ----
(***************************************************************************)
(* Model of the Simon game of src/main.rs (bevy 0.8 + iyes_loopless).      *)
(*                                                                         *)
(* One frame of the app runs its stages in this order:                     *)
(*   First/PreUpdate : Events::update_system for both event types and the  *)
(*                     picking plugin writing the Interaction components   *)
(*   StateTransition : applies NextState and runs the enter systems        *)
(*   FixedUpdate     : 0..n runs of the fixed-timestep stage (1.0 s each)  *)
(*   Update          : the per-frame systems, in an order the parallel     *)
(*                     executor is free to choose (none is ordered by a    *)
(*                     label), each at most once per frame                 *)
(* Commands (insert_resource / remove_resource) are applied at the end of  *)
(* the stage that issued them; no system of the issuing stage reads them.  *)
(*                                                                         *)
(* Spec follows the game logic (Pattern, Progress, Score, the two states   *)
(* and both event queues), FairSpec is Spec with the fairness the frame    *)
(* loop gives, and ButtonSpec follows ButtonState, PreviousButtonState and *)
(* the height of one button with the frame times that drive its timer.     *)
(***************************************************************************)
EXTENDS Integers, Sequences, FiniteSets, TLC

\* ------------------------------------------------------------------ bounds
MaxLen == 2       \* longest Pattern explored
MaxScore == 2     \* clicks are explored while Score.high is below this
MaxSteps == 2     \* most runs of the fixed-timestep stage within one frame
MaxDelta == 3     \* longest frame of ButtonSpec, in Quantum units
MaxOffset == 2    \* clicks are explored while the button is less than this
                  \* many steps away from its spawn height

\* --------------------------------------------------------------- constants
Buttons == {"Red", "Green", "Blue", "Yellow"}

\* The buttons the random generator and the player are explored with.  The
\* only use the game logic makes of a button's identity is the comparison
\* in validate_buttons, and two identities give both of its results.
Drawn == {"Red", "Green"}

\* Query iteration order: the order in which setup spawns the buttons
ButtonOrder == <<"Red", "Green", "Blue", "Yellow">>

SimonStates == {"MonkeySee", "MonkeyDo"}

\* systems of the Update stage that this model follows
AlwaysSystems == {"update_score"}
MonkeyDoSystems == {"press_buttons", "validate_buttons", "game_event_handler"}

NoState == "None"

\* Times are counted in units of 0.1 s, the greatest unit in which the
\* durations of the program are whole numbers.
PRESS_DURATION == 5     \* ButtonState::Pressed { timer: 0.5 }
LIT_DURATION == 8       \* ButtonState::Lit { timer: 0.8 }
FixedStep == 10         \* Duration::from_secs_f32(1.0)

\* the button whose components ButtonSpec follows; the button systems treat
\* every button alike and no button's components depend on another's
Followed == "Red"

\* the button systems of the Update stage
ButtonSystems ==
    {"button_event_handler", "button_state_manager", "button_controller"}

\* ButtonState variants; the timer of Inactive is a placeholder
Inactive == [cat |-> "Inactive", timer |-> 0]
PressedFor(timer) == [cat |-> "Pressed", timer |-> timer]
LitFor(timer) == [cat |-> "Lit", timer |-> timer]
NoRound == "NoRound"
RoundEnding == {"Success", "Failure"}

VARIABLES
    state,          \* CurrentState<SimonState>
    nextState,      \* NextState<SimonState> resource, or NoState
    stateSwitch,    \* whether the StateSwitch resource exists
    pattern,        \* Pattern.0
    progress,       \* Progress.0
    score,          \* Score {current, high}
    interaction,    \* Interaction component of each button
    fresh,          \* buttons press_buttons' query would select and find
                    \* Clicked: Interaction written since the system last
                    \* ran (Changed<Interaction>) and Clicked now
    bevOld, bevNew, \* Events<ButtonEvent>: last frame's and this frame's buffer
    vbSeen,         \* events of bevOld \o bevNew already read by validate_buttons
    sevOld, sevNew, \* Events<SimonEvent> buffers
    gehSeen,        \* events already read by game_event_handler
    usSeen,         \* events already read by update_score
    pc,             \* stage the frame is in
    fixedLeft,      \* runs of the fixed-timestep stage still due this frame
    toRun,          \* Update systems that have not run yet this frame
    panicked,       \* a system has panicked (index out of bounds)
    \* history variables: they record what has happened and steer nothing
    round,          \* this MonkeyDo phase: "open" while validate_buttons has
                    \* sent no Success or Failure, "over" once it has sent
                    \* one, "overrun" once it has sent anything after that
    completed,      \* <<[pattern, current]>>: Pattern and Score.current when
                    \* validate_buttons sent the Success that closed this
                    \* phase's round; <<>> when it has sent none
    clickState,     \* the state of the frame in which the Interaction that
                    \* is Clicked now was written, or NoState
    maxCurrent,     \* greatest value Score.current has held
    lit,            \* the buttons show_button has sent Lit for in this
                    \* MonkeySee phase, in order
    firstRound,     \* whether the first MonkeySee phase, or the MonkeyDo
                    \* phase after it, is still going on
    \* the button systems, followed by ButtonSpec for one button
    buttonState,    \* ButtonState of the button: [cat, timer]
    previous,       \* PreviousButtonState of the button (its variant; no
                    \* system reads the timer stored in it)
    offset,         \* transform.translation.y of the button minus its
                    \* spawn value, in steps of 0.02
    behSeen,        \* events already read by button_event_handler
    delta,          \* Time::delta_seconds() of this frame, in Quantum units
    acc,            \* accumulator of the fixed-timestep stage
    ticked,         \* history: the deltas button_state_manager has subtracted
                    \* since the ButtonState was last set by an event
    landed          \* history: what has landed in this frame: "timeout" when
                    \* the frame started with the button shown as its state
                    \* says and its timer at or below zero, "press" when
                    \* button_event_handler has handled a press of it

animVars == <<buttonState, previous, offset, behSeen, delta, acc, ticked,
              landed>>

vars == <<state, nextState, stateSwitch, pattern, progress, score, interaction,
          fresh, bevOld, bevNew, vbSeen, sevOld, sevNew, gehSeen, usSeen,
          pc, fixedLeft, toRun, panicked,
          round, completed, clickState, maxCurrent, lit, firstRound,
          animVars>>

gameVars == <<state, nextState, stateSwitch, pattern, progress, score>>
inputVars == <<interaction, fresh>>
bevVars == <<bevOld, bevNew, vbSeen>>
sevVars == <<sevOld, sevNew, gehSeen, usSeen>>
roundVars == <<round, completed>>
revealVars == <<lit, firstRound>>

\* ----------------------------------------------------------------- helpers
Max(a, b) == IF a >= b THEN a ELSE b

Pressed(b) == [kind |-> "Pressed", button |-> b]
Lit(b) == [kind |-> "Lit", button |-> b]

\* what an EventReader that has read `seen` events still has to read
Unread(old, new, seen) == SubSeq(old \o new, seen + 1, Len(old) + Len(new))

\* -------------------------------------------------- PatternStore (409-412)
\* mutant: the new button is put in front of the stored ones
update_pattern_front(pat, button) == <<button>> \o pat

\* update_pattern: push one random button
update_pattern(pat, button) == Append(pat, button)

\* ------------------------------------------------ InputValidator (442-461)
\* mutant: the last index is taken to be the length
ValidateOneLate(button, pat, prog) ==
    IF prog >= Len(pat) THEN "Panic"
    ELSE IF button = pat[prog + 1]
         THEN IF prog = Len(pat) THEN "Success" ELSE "Next"
         ELSE "Failure"

\* the body of validate_buttons' loop for one ButtonEvent::Pressed(button);
\* pattern.0[progress.0] panics when progress.0 is out of bounds
ValidateOne(button, pat, prog) ==
    IF prog >= Len(pat) THEN "Panic"
    ELSE IF button = pat[prog + 1]
         THEN IF prog = Len(pat) - 1 THEN "Success" ELSE "Next"
         ELSE "Failure"

\* the SimonEvents validate_buttons sends for the ButtonEvents it reads, in
\* order; Pattern and Progress are read-only resources of the system, so every
\* event of one run is compared against the same Progress
RECURSIVE Validate(_, _, _)
Validate(evs, pat, prog) ==
    IF evs = <<>> THEN <<>>
    ELSE IF Head(evs).kind = "Pressed"
         THEN LET out == ValidateOne(Head(evs).button, pat, prog)
              IN  IF out = "Panic" THEN <<out>>
                  ELSE <<out>> \o Validate(Tail(evs), pat, prog)
         ELSE Validate(Tail(evs), pat, prog)

\* --------------------------------------------- game_event_handler (463-485)
GameEvent(ev, g) ==
    CASE ev = "Success" -> [g EXCEPT !.progress = 0, !.stateSwitch = TRUE]
      [] ev = "Next"    -> [g EXCEPT !.progress = g.progress + 1]
      [] ev = "Failure" -> [g EXCEPT !.progress = 0, !.pattern = <<>>,
                                     !.stateSwitch = TRUE]

RECURSIVE GameEvents(_, _)
GameEvents(evs, g) ==
    IF evs = <<>> THEN g ELSE GameEvents(Tail(evs), GameEvent(Head(evs), g))

\* --------------------------------------------------- update_score (494-507)
\* mutant: the high score is compared before current is incremented
ScoreEventStale(ev, sc) ==
    CASE ev = "Success" ->
             [current |-> sc.current + 1,
              high |-> IF sc.current > sc.high THEN sc.current ELSE sc.high]
      [] ev = "Failure" -> [sc EXCEPT !.current = 0]
      [] ev = "Next"    -> sc

ScoreEvent(ev, sc) ==
    CASE ev = "Success" ->
             LET cur == sc.current + 1
             IN  [current |-> cur, high |-> IF cur > sc.high THEN cur ELSE sc.high]
      [] ev = "Failure" -> [sc EXCEPT !.current = 0]
      [] ev = "Next"    -> sc

RECURSIVE ScoreEvents(_, _)
ScoreEvents(evs, sc) ==
    IF evs = <<>> THEN sc ELSE ScoreEvents(Tail(evs), ScoreEvent(Head(evs), sc))

\* ----------------------------------------------------- press_buttons (430-439)
\* the Pressed events press_buttons sends: one for every button whose
\* Interaction changed since the system last ran and is now Clicked
RECURSIVE PressedEvents(_, _, _)
PressedEvents(order, inter, chg) ==
    IF order = <<>> THEN <<>>
    ELSE (IF Head(order) \in chg /\ inter[Head(order)] = "Clicked"
          THEN <<Pressed(Head(order))>> ELSE <<>>)
         \o PressedEvents(Tail(order), inter, chg)

\* the greatest Score.current update_score passes through on these events
RECURSIVE MaxCurrent(_, _, _)
MaxCurrent(evs, sc, m) ==
    IF evs = <<>> THEN m
    ELSE LET next == ScoreEvent(Head(evs), sc)
         IN  MaxCurrent(Tail(evs), next, Max(m, next.current))

\* `round` after validate_buttons has sent the events outs
RECURSIVE RoundAfter(_, _)
RoundAfter(r, outs) ==
    IF outs = <<>> THEN r
    ELSE RoundAfter(IF r = "open"
                    THEN (IF Head(outs) \in RoundEnding THEN "over" ELSE "open")
                    ELSE "overrun",
                    Tail(outs))

Count(outs, ev) == Cardinality({i \in 1..Len(outs) : outs[i] = ev})

\* the first Success or Failure among outs, or NoRound
FirstEnding(outs) ==
    IF \E i \in 1..Len(outs) : outs[i] \in RoundEnding
    THEN outs[CHOOSE i \in 1..Len(outs) :
                 /\ outs[i] \in RoundEnding
                 /\ \A j \in 1..(i - 1) : outs[j] \notin RoundEnding]
    ELSE NoRound

\* -------------------------------------------------------------------- Init
\* setup spawns every button Inactive, with PreviousButtonState(Inactive)
ButtonsSpawned ==
    /\ buttonState = Inactive
    /\ previous = "Inactive"
    /\ offset = 0
    /\ behSeen = 0
    /\ delta = 0
    /\ acc = 0
    /\ ticked = 0
    /\ landed = {}

\* mutant: the initial state counts as entered, its enter system never runs
InitNotEntered ==
    /\ state = "MonkeySee"
    /\ nextState = NoState
    /\ stateSwitch = FALSE
    /\ pattern = <<>>
    /\ progress = 0
    /\ score = [current |-> 0, high |-> 0]
    /\ interaction = [b \in Buttons |-> "None"]
    /\ fresh = {}
    /\ bevOld = <<>> /\ bevNew = <<>> /\ vbSeen = 0
    /\ sevOld = <<>> /\ sevNew = <<>> /\ gehSeen = 0 /\ usSeen = 0
    /\ pc = "PreUpdate"
    /\ fixedLeft = 0
    /\ toRun = {}
    /\ panicked = FALSE
    /\ round = "open" /\ completed = <<>>
    /\ clickState = NoState
    /\ maxCurrent = 0
    /\ lit = <<>> /\ firstRound = TRUE
    /\ ButtonsSpawned

Init ==
    /\ state = "MonkeySee"
    /\ nextState = "MonkeySee"      \* the initial state is entered by the
                                    \* first run of the transition stage
    /\ stateSwitch = FALSE
    /\ pattern = <<>>
    /\ progress = 0
    /\ score = [current |-> 0, high |-> 0]
    /\ interaction = [b \in Buttons |-> "None"]
    /\ fresh = {}
    /\ bevOld = <<>> /\ bevNew = <<>> /\ vbSeen = 0
    /\ sevOld = <<>> /\ sevNew = <<>> /\ gehSeen = 0 /\ usSeen = 0
    /\ pc = "PreUpdate"
    /\ fixedLeft = 0
    /\ toRun = {}
    /\ panicked = FALSE
    /\ round = "open" /\ completed = <<>>
    /\ clickState = NoState
    /\ maxCurrent = 0
    /\ lit = <<>> /\ firstRound = TRUE
    /\ ButtonsSpawned

At(stage) == ~panicked /\ pc = stage

\* the state the systems of this frame run in: the transition stage comes
\* before the fixed-timestep and Update stages
FrameState == IF nextState # NoState THEN nextState ELSE state

\* ----------------------------------------------------------------- actions
\* The picking plugin (PreUpdate): a mouse release puts every Clicked
\* Interaction back to None, a mouse press puts the hovered button's
\* Interaction to Clicked; both write the component only when its value
\* changes.  "None" stands for None and Hovered, which no system tells apart.
Picking ==
    /\ At("PreUpdate")
    /\ \E release \in BOOLEAN, click \in Drawn \cup {"NoButton"} :
         LET released == [b \in Buttons |->
                             IF release /\ interaction[b] = "Clicked"
                             THEN "None" ELSE interaction[b]]
         IN  /\ click # "NoButton" =>
                   /\ \A b \in Buttons : released[b] # "Clicked"
                   /\ score.high < MaxScore
                   /\ -MaxOffset < offset /\ offset < MaxOffset
             /\ interaction' = [b \in Buttons |->
                                   IF b = click THEN "Clicked" ELSE released[b]]
             /\ fresh' = {b \in Buttons :
                              \/ b = click
                              \/ b \in fresh /\ released[b] = "Clicked"}
             /\ clickState' =
                   IF click # "NoButton" THEN FrameState
                   ELSE IF \A b \in Buttons : released[b] # "Clicked"
                        THEN NoState ELSE clickState
    /\ pc' = "Transition"
    /\ UNCHANGED <<gameVars, bevVars, sevVars, fixedLeft, toRun, panicked,
                   roundVars, maxCurrent,
                   revealVars, animVars>>

\* The fixed-timestep stage follows the transition stage.  It adds the
\* frame's delta to its accumulator and runs once per whole step (1.0 s) in
\* it.  The delta of the first frame is zero; that frame is the one in which
\* the transition stage enters the initial state.
BeginFixed ==
    /\ pc' = "Fixed"
    /\ fixedLeft' \in IF nextState = state THEN {0} ELSE 0..MaxSteps

\* StateTransitionStage with NextState(MonkeySee): enter system update_pattern
EnterMonkeySee ==
    /\ At("Transition")
    /\ nextState = "MonkeySee"
    /\ Len(pattern) < MaxLen
    /\ state' = "MonkeySee"
    /\ nextState' = NoState
    /\ \E button \in Drawn : pattern' = update_pattern(pattern, button)
    /\ BeginFixed
    /\ round' = "open" /\ completed' = <<>>
    /\ lit' = <<>> /\ firstRound' = (firstRound /\ state = nextState)
    /\ UNCHANGED <<stateSwitch, progress, score, inputVars, bevVars, sevVars,
                   toRun, panicked, clickState, maxCurrent, animVars>>

\* StateTransitionStage with NextState(MonkeyDo): no enter or exit system
EnterMonkeyDo ==
    /\ At("Transition")
    /\ nextState = "MonkeyDo"
    /\ state' = "MonkeyDo"
    /\ nextState' = NoState
    /\ BeginFixed
    /\ round' = "open" /\ completed' = <<>>
    /\ lit' = <<>>
    /\ UNCHANGED <<stateSwitch, pattern, progress, score, inputVars, bevVars,
                   sevVars, toRun, panicked, clickState, maxCurrent, firstRound,
                   animVars>>

\* StateTransitionStage without a NextState resource
NoTransition ==
    /\ At("Transition")
    /\ nextState = NoState
    /\ BeginFixed
    /\ UNCHANGED <<gameVars, inputVars, bevVars, sevVars, toRun, panicked,
                   roundVars, clickState, maxCurrent,
                   revealVars, animVars>>

\* one run of the fixed-timestep stage in MonkeySee: show_button
ShowButton ==
    /\ At("Fixed") /\ fixedLeft > 0
    /\ state = "MonkeySee"
    /\ IF progress < Len(pattern)
       THEN /\ bevNew' = Append(bevNew, Lit(pattern[progress + 1]))
            /\ lit' = Append(lit, pattern[progress + 1])
            /\ progress' = progress + 1
            /\ UNCHANGED nextState
       ELSE /\ progress' = 0
            /\ nextState' = "MonkeyDo"
            /\ UNCHANGED <<bevNew, lit>>
    /\ fixedLeft' = fixedLeft - 1
    /\ UNCHANGED <<state, stateSwitch, pattern, score, inputVars, bevOld,
                   vbSeen, sevVars, pc, toRun, panicked, roundVars, clickState,
                   maxCurrent, firstRound, animVars>>

\* one run of the fixed-timestep stage in MonkeyDo: state_switch_event_handler
StateSwitchEventHandler ==
    /\ At("Fixed") /\ fixedLeft > 0
    /\ state = "MonkeyDo"
    /\ IF stateSwitch
       THEN /\ stateSwitch' = FALSE
            /\ nextState' = "MonkeySee"
       ELSE UNCHANGED <<stateSwitch, nextState>>
    /\ fixedLeft' = fixedLeft - 1
    /\ UNCHANGED <<state, pattern, progress, score, inputVars, bevVars,
                   sevVars, pc, toRun, panicked, roundVars, clickState,
                   maxCurrent,
                   revealVars, animVars>>

\* the fixed-timestep stage has caught up; the Update stage starts with the
\* systems whose run condition holds in the current state
BeginUpdate ==
    /\ At("Fixed") /\ fixedLeft = 0
    /\ pc' = "Update"
    /\ toRun' = AlwaysSystems \cup
                (IF state = "MonkeyDo" THEN MonkeyDoSystems ELSE {})
    /\ UNCHANGED <<gameVars, inputVars, bevVars, sevVars, fixedLeft, panicked,
                   roundVars, clickState, maxCurrent,
                   revealVars, animVars>>

Runs(system) == At("Update") /\ system \in toRun /\ toRun' = toRun \ {system}

PressButtons ==
    /\ Runs("press_buttons")
    /\ bevNew' = bevNew \o PressedEvents(ButtonOrder, interaction, fresh)
    /\ fresh' = {}
    /\ UNCHANGED <<gameVars, interaction, bevOld, vbSeen, sevVars, pc,
                   fixedLeft, panicked, roundVars, clickState, maxCurrent,
                   revealVars, animVars>>

ValidateButtons ==
    /\ Runs("validate_buttons")
    /\ LET outs == Validate(Unread(bevOld, bevNew, vbSeen), pattern, progress)
       IN  IF outs # <<>> /\ outs[Len(outs)] = "Panic"
           THEN /\ panicked' = TRUE
                /\ UNCHANGED <<sevNew, vbSeen, roundVars>>
           ELSE /\ sevNew' = sevNew \o outs
                /\ vbSeen' = Len(bevOld) + Len(bevNew)
                /\ round' = RoundAfter(round, outs)
                /\ completed' =
                      IF round = "open" /\ FirstEnding(outs) = "Success"
                      THEN <<[pattern |-> pattern, current |-> score.current]>>
                      ELSE completed
                /\ UNCHANGED panicked
    /\ UNCHANGED <<gameVars, inputVars, bevOld, bevNew, sevOld, gehSeen, usSeen,
                   pc, fixedLeft, clickState, maxCurrent,
                   revealVars, animVars>>

GameEventHandler ==
    /\ Runs("game_event_handler")
    /\ LET g == GameEvents(Unread(sevOld, sevNew, gehSeen),
                           [progress |-> progress, pattern |-> pattern,
                            stateSwitch |-> stateSwitch])
       IN  /\ progress' = g.progress
           /\ pattern' = g.pattern
           /\ stateSwitch' = g.stateSwitch
    /\ gehSeen' = Len(sevOld) + Len(sevNew)
    /\ UNCHANGED <<state, nextState, score, inputVars, bevVars, sevOld, sevNew,
                   usSeen, pc, fixedLeft, panicked, roundVars, clickState,
                   maxCurrent,
                   revealVars, animVars>>

UpdateScore ==
    /\ Runs("update_score")
    /\ score' = ScoreEvents(Unread(sevOld, sevNew, usSeen), score)
    /\ maxCurrent' = MaxCurrent(Unread(sevOld, sevNew, usSeen), score, maxCurrent)
    /\ usSeen' = Len(sevOld) + Len(sevNew)
    /\ UNCHANGED <<state, nextState, stateSwitch, pattern, progress, inputVars,
                   bevVars, sevOld, sevNew, gehSeen, pc, fixedLeft, panicked,
                   roundVars, clickState, revealVars, animVars>>

\* End of the frame and the First stage of the next one: both Events
\* resources drop their older buffer (Events::update_system).
NextFrame ==
    /\ At("Update") /\ toRun = {}
    /\ bevOld' = bevNew /\ bevNew' = <<>>
    /\ vbSeen' = Max(vbSeen - Len(bevOld), 0)
    /\ sevOld' = sevNew /\ sevNew' = <<>>
    /\ gehSeen' = Max(gehSeen - Len(sevOld), 0)
    /\ usSeen' = Max(usSeen - Len(sevOld), 0)
    /\ pc' = "PreUpdate"
    /\ UNCHANGED <<gameVars, inputVars, fixedLeft, toRun, panicked, roundVars,
                   clickState, maxCurrent,
                   revealVars, animVars>>

Next ==
    \/ Picking
    \/ EnterMonkeySee
    \/ EnterMonkeyDo
    \/ NoTransition
    \/ ShowButton
    \/ StateSwitchEventHandler
    \/ BeginUpdate
    \/ PressButtons
    \/ ValidateButtons
    \/ GameEventHandler
    \/ UpdateScore
    \/ NextFrame

Spec == Init /\ [][Next]_vars

\* a frame in which the accumulator of the fixed-timestep stage holds at
\* least one whole step
Tick == Next /\ pc = "Transition" /\ fixedLeft' > 0

\* The app runs frame after frame until a system panics, and every frame
\* adds its delta to the accumulator of the fixed-timestep stage, so that
\* frames with a whole step in it keep coming.
FairSpec == Spec /\ WF_vars(Next) /\ SF_vars(Tick)

\* ------------------------------------------------------------- ButtonSpec
\* The button systems (button_event_handler, button_state_manager,
\* button_controller) with press_buttons and the picking plugin, for the
\* button Followed.  Of the game logic only what decides when a ButtonEvent
\* can be sent is kept: Lit is sent by a run of the fixed-timestep stage in
\* MonkeySee, Pressed by press_buttons in MonkeyDo, and the state changes
\* in the transition stage of the frame after a fixed-timestep run asked
\* for it.  Whether show_button finds a button at Progress and whether the
\* StateSwitch resource exists is a choice here.

\* button_event_handler, one event, for the components b of `button`
ButtonEvent(ev, button, b) ==
    IF ev.button # button THEN b
    ELSE [state |-> IF ev.kind = "Pressed" THEN PressedFor(PRESS_DURATION)
                    ELSE LitFor(LIT_DURATION),
          previous |-> b.state.cat]

RECURSIVE ButtonEvents(_, _, _)
ButtonEvents(evs, button, b) ==
    IF evs = <<>> THEN b
    ELSE ButtonEvents(Tail(evs), button, ButtonEvent(Head(evs), button, b))

\* button_state_manager, for the components b of one button
ManageState(b, dt) ==
    IF b.state.cat = "Inactive" THEN b
    ELSE IF b.state.timer > 0
         THEN [b EXCEPT !.state.timer = b.state.timer - dt]
         ELSE [state |-> Inactive, previous |-> b.state.cat]

\* button_controller, for one button: PreviousButtonState and the height
Control(b, y) ==
    IF b.previous # b.state.cat
    THEN [previous |-> b.state.cat,
          offset |-> CASE b.state.cat = "Inactive" ->
                              IF b.previous = "Pressed" THEN y + 1 ELSE y
                       [] b.state.cat = "Pressed" -> y - 1
                       [] b.state.cat = "Lit" -> y]
    ELSE [previous |-> b.previous, offset |-> y]

ButtonOf == [state |-> buttonState, previous |-> previous]

gameIdle == <<stateSwitch, pattern, progress, score, vbSeen, sevVars, panicked,
              roundVars, maxCurrent, revealVars>>

\* StateTransitionStage, then the fixed-timestep stage adds the frame's
\* delta to its accumulator and runs once for every whole step in it
ButtonTransition ==
    /\ At("Transition")
    /\ state' = FrameState
    /\ nextState' = NoState
    /\ fixedLeft' = (acc + delta) \div FixedStep
    /\ acc' = (acc + delta) % FixedStep
    /\ pc' = "Fixed"
    /\ UNCHANGED <<gameIdle, inputVars, bevOld, bevNew, toRun, clickState,
                   buttonState, previous, offset, behSeen, delta, ticked,
                   landed>>

\* one run of the fixed-timestep stage in MonkeySee: show_button sends Lit
\* for the button at Progress, or asks for MonkeyDo when there is none
ButtonShowButton ==
    /\ At("Fixed") /\ fixedLeft > 0
    /\ state = "MonkeySee"
    /\ \/ /\ \E button \in Drawn : bevNew' = Append(bevNew, Lit(button))
          /\ UNCHANGED nextState
       \/ /\ nextState' = "MonkeyDo"
          /\ UNCHANGED bevNew
    /\ fixedLeft' = fixedLeft - 1
    /\ UNCHANGED <<state, gameIdle, inputVars, bevOld, pc, toRun, clickState,
                   animVars>>

\* one run of the fixed-timestep stage in MonkeyDo:
\* state_switch_event_handler asks for MonkeySee when StateSwitch exists
ButtonStateSwitch ==
    /\ At("Fixed") /\ fixedLeft > 0
    /\ state = "MonkeyDo"
    /\ \/ nextState' = "MonkeySee"
       \/ UNCHANGED nextState
    /\ fixedLeft' = fixedLeft - 1
    /\ UNCHANGED <<state, gameIdle, inputVars, bevVars, pc, toRun, clickState,
                   animVars>>

ButtonBeginUpdate ==
    /\ At("Fixed") /\ fixedLeft = 0
    /\ pc' = "Update"
    /\ toRun' = ButtonSystems \cup
                (IF state = "MonkeyDo" THEN {"press_buttons"} ELSE {})
    /\ UNCHANGED <<state, nextState, gameIdle, inputVars, bevVars, fixedLeft,
                   clickState, animVars>>

ButtonEventHandler ==
    /\ Runs("button_event_handler")
    /\ LET evs == Unread(bevOld, bevNew, behSeen)
           mine == SelectSeq(evs, LAMBDA ev : ev.button = Followed)
           b == ButtonEvents(evs, Followed, ButtonOf)
       IN  /\ buttonState' = b.state
           /\ previous' = b.previous
           /\ ticked' = IF mine # <<>> THEN 0 ELSE ticked
           /\ landed' = IF mine # <<>> /\ mine[Len(mine)].kind = "Pressed"
                         THEN landed \cup {"press"} ELSE landed
    /\ behSeen' = Len(bevOld) + Len(bevNew)
    /\ UNCHANGED <<state, nextState, gameIdle, inputVars, bevVars, pc,
                   fixedLeft, clickState, offset, delta, acc>>

ButtonStateManager ==
    /\ Runs("button_state_manager")
    /\ LET b == ManageState(ButtonOf, delta)
       IN  /\ buttonState' = b.state
           /\ previous' = b.previous
    /\ ticked' = IF buttonState.cat # "Inactive" /\ buttonState.timer > 0
                  THEN ticked + delta ELSE ticked
    /\ UNCHANGED <<state, nextState, gameIdle, inputVars, bevVars, pc,
                   fixedLeft, clickState, offset, behSeen, delta, acc, landed>>

ButtonController ==
    /\ Runs("button_controller")
    /\ LET c == Control(ButtonOf, offset)
       IN  /\ previous' = c.previous
           /\ offset' = c.offset
    /\ UNCHANGED <<state, nextState, gameIdle, inputVars, bevVars, pc,
                   fixedLeft, clickState, buttonState, behSeen, delta, acc,
                   ticked, landed>>

\* End of the frame and the First stage of the next one: Events<ButtonEvent>
\* drops its older buffer and Time takes the new frame's delta.
ButtonNextFrame ==
    /\ At("Update") /\ toRun = {}
    /\ bevOld' = bevNew /\ bevNew' = <<>>
    /\ behSeen' = Max(behSeen - Len(bevOld), 0)
    /\ delta' \in 1..MaxDelta
    /\ landed' = IF /\ buttonState.cat # "Inactive" /\ buttonState.timer <= 0
                     /\ previous = buttonState.cat
                     /\ offset = (IF buttonState.cat = "Pressed" THEN -1 ELSE 0)
                  THEN {"timeout"} ELSE {}
    /\ pc' = "PreUpdate"
    /\ UNCHANGED <<state, nextState, gameIdle, inputVars, fixedLeft, toRun,
                   clickState, buttonState, previous, offset, acc, ticked>>

ButtonNext ==
    \/ Picking
    \/ ButtonTransition
    \/ ButtonShowButton
    \/ ButtonStateSwitch
    \/ ButtonBeginUpdate
    \/ PressButtons
    \/ ButtonEventHandler
    \/ ButtonStateManager
    \/ ButtonController
    \/ ButtonNextFrame

ButtonSpec == Init /\ [][ButtonNext]_vars

\* ------------------------------------------------------------------ claims
Ran(system) == pc = "Update" /\ system \in toRun /\ system \notin toRun'

Handles(ev, seen) ==
    \E i \in (seen + 1)..(Len(sevOld) + Len(sevNew)) : (sevOld \o sevNew)[i] = ev

\* C1: Progress is at most the length of Pattern in every reachable state.
C1_ProgressInRange == progress <= Len(pattern)

\* C2: Pattern is non-empty in every state whose phase is MonkeyDo.
C2_PatternNonEmptyInMonkeyDo == state = "MonkeyDo" => pattern # <<>>

\* C3: once validate_buttons has sent a Success or a Failure in a MonkeyDo
\* phase, it sends no further SimonEvent in that phase.
C3_RoundEndsOnce == round # "overrun"

\* C4: when the round of a MonkeyDo phase was completed on a Pattern of
\* length n, MonkeySee is re-entered with Score.current one above its value
\* at the completing press, and with that Pattern plus one button.
C4_CompleteGrowsPattern ==
    [][(state = "MonkeyDo" /\ state' = "MonkeySee" /\ completed # <<>>) =>
          /\ score.current = completed[1].current + 1
          /\ \E b \in Buttons : pattern' = Append(completed[1].pattern, b)]_vars

\* C5: when game_event_handler has handled a Failure, Pattern is empty, and
\* when update_score has handled a Failure, Score.current is 0, whatever
\* other events the same run handled.
C5_MistakeResets ==
    [][/\ (Ran("game_event_handler") /\ Handles("Failure", gehSeen))
            => pattern' = <<>>
       /\ (Ran("update_score") /\ Handles("Failure", usSeen))
            => score'.current = 0]_vars

\* C6: Score.high never decreases, is at least Score.current, and equals the
\* greatest value Score.current has held.
C6_HighScore ==
    /\ [](score.high >= score.current /\ score.high = maxCurrent)
    /\ [][score'.high >= score.high]_vars

C6_Witness == score.current = 0 /\ score.high = 2

\* C7: every step that changes Pattern appends one button to it or replaces
\* it by the empty sequence.
C7_AppendOrClear ==
    [][\/ pattern' = pattern
       \/ pattern' = <<>>
       \/ \E b \in Buttons : pattern' = Append(pattern, b)]_vars

C7_Witness == Len(pattern) = 2 /\ pattern[1] # pattern[2]

\* C8: press_buttons sends a Pressed event only for a click that arrived in
\* a frame of the MonkeyDo state; a click that arrived during MonkeySee
\* never produces one, also not after the state has become MonkeyDo.
C8_MonkeySeePressIgnored ==
    [][(Ran("press_buttons")
         /\ PressedEvents(ButtonOrder, interaction, fresh) # <<>>)
          => clickState = "MonkeyDo"]_vars

\* The validator of C9: every press is compared against the cursor that all
\* earlier Continue outcomes have advanced, and the round ends with the
\* first Complete or Mistake.
RECURSIVE CursorValidate(_, _, _)
CursorValidate(evs, pat, cur) ==
    IF evs = <<>> THEN <<>>
    ELSE IF Head(evs).kind = "Pressed"
         THEN LET out == ValidateOne(Head(evs).button, pat, cur)
              IN  IF out = "Next"
                  THEN <<out>> \o CursorValidate(Tail(evs), pat, cur + 1)
                  ELSE <<out>>
         ELSE CursorValidate(Tail(evs), pat, cur)

\* the cursor once every Next sent so far has been applied to Progress
TrueCursor == progress + Count(Unread(sevOld, sevNew, gehSeen), "Next")

IsPrefix(a, b) == Len(a) <= Len(b) /\ \A i \in 1..Len(a) : a[i] = b[i]

\* C9: while the round is open, validate_buttons sends for every press the
\* one outcome that the comparison with Pattern at the cursor gives, the
\* cursor reflecting every Continue of the earlier presses.  (A run that
\* panics sends nothing and is left to C15.)
C9_ValidatedAgainstCursor ==
    [][(Ran("validate_buttons") /\ round = "open") =>
          IsPrefix(CursorValidate(Unread(bevOld, bevNew, vbSeen), pattern,
                                  TrueCursor),
                   Validate(Unread(bevOld, bevNew, vbSeen), pattern,
                            progress))]_vars

EntersMonkeySee == pc = "Transition" /\ nextState = "MonkeySee" /\ pc' = "Fixed"

\* C10: every entry into MonkeySee appends exactly one button to Pattern,
\* no other step of a MonkeySee phase changes Pattern, and every run of
\* show_button finds Pattern non-empty.
C10_EntryAppendsOnce ==
    /\ [][EntersMonkeySee =>
             \E b \in Buttons : pattern' = Append(pattern, b)]_vars
    /\ [][(state = "MonkeySee" /\ state' = "MonkeySee" /\ ~EntersMonkeySee)
             => pattern' = pattern]_vars
    /\ []((state = "MonkeySee" /\ pc = "Fixed" /\ fixedLeft > 0)
             => pattern # <<>>)

C10_Witness ==
    /\ state = "MonkeySee" /\ pc = "Fixed" /\ fixedLeft > 0
    /\ progress = 0 /\ Len(pattern) = 2 /\ score.current = 1

\* C11: a button put into Pressed with PRESS_DURATION (into Lit with
\* LIT_DURATION) and then only ticked is Inactive as soon as the deltas
\* subtracted add up to the duration; before that it is still Pressed (Lit)
\* with the duration minus those deltas remaining.
C11_TimerExpiresOnCrossing ==
    /\ buttonState.cat = "Pressed" =>
          /\ ticked < PRESS_DURATION
          /\ buttonState.timer = PRESS_DURATION - ticked
    /\ buttonState.cat = "Lit" =>
          /\ ticked < LIT_DURATION
          /\ buttonState.timer = LIT_DURATION - ticked

EntersMonkeyDo == pc = "Transition" /\ nextState = "MonkeyDo" /\ pc' = "Fixed"

Presses(evs) == SelectSeq(evs, LAMBDA ev : ev.kind = "Pressed")

C13_RevealsPatternOnce ==
    /\ [][EntersMonkeyDo => lit = pattern]_vars
    /\ [][(pc = "Fixed" /\ state = "MonkeySee" /\ fixedLeft' < fixedLeft
             /\ progress >= Len(pattern))
              => bevNew' = bevNew /\ nextState' = "MonkeyDo"]_vars

\* C14: Progress is 0 whenever the state changes, to MonkeySee as well as
\* to MonkeyDo.
C14_ProgressZeroOnTransition ==
    [][(EntersMonkeySee \/ EntersMonkeyDo) => progress' = 0]_vars

\* C15: validate_buttons never finds Progress outside Pattern when it looks
\* up the expected button: no run of it panics.
C15_NoOutOfRange == ~panicked

EndOfFrame == pc = "Update" /\ toRun = {}

\* the height button_controller leaves the button at once it has seen the
\* ButtonState the frame ended with
Shown == Control(ButtonOf, offset).offset

\* C16: a frame in which a button's timeout and a press of that button land
\* ends, whatever the order of the systems, with the button Pressed on a
\* press timer started in this frame and shown pressed in by one step.
C16_PressWinsOverTimeout ==
    (EndOfFrame /\ landed = {"timeout", "press"}) =>
        /\ buttonState.cat = "Pressed"
        /\ buttonState.timer \in {PRESS_DURATION, PRESS_DURATION - delta}
        /\ Shown = -1

\* C19: at the end of every frame the button is at its spawn height or one
\* step (0.02) below it, and it is below iff its ButtonState is Pressed.
\* (When button_controller ran before the system that changed the
\* ButtonState, the height is taken after its next run.)
C19_OffsetMatchesState ==
    EndOfFrame =>
        /\ Shown \in {0, -1}
        /\ Shown = -1 <=> buttonState.cat = "Pressed"

\* C17: every MonkeySee phase reaches MonkeyDo; every MonkeyDo phase in
\* which validate_buttons has sent a Success or a Failure is followed by
\* MonkeySee (as far as the model lets Pattern grow); and the state changes
\* only from MonkeySee to MonkeyDo when show_button has asked for it, and
\* from MonkeyDo to MonkeySee after a Success or a Failure of that phase.
C17_NoStuckPhase ==
    /\ (state = "MonkeySee") ~> (state = "MonkeyDo")
    /\ (state = "MonkeyDo" /\ round # "open" /\ Len(pattern) < MaxLen)
          ~> (state = "MonkeySee")
    /\ [][state' # state =>
             IF state = "MonkeySee"
             THEN state' = "MonkeyDo" /\ nextState = "MonkeyDo"
             ELSE state' = "MonkeySee" /\ round # "open"]_vars

OnlyNext(seen) ==
    /\ seen < Len(sevOld) + Len(sevNew)
    /\ \A i \in (seen + 1)..(Len(sevOld) + Len(sevNew)) :
          (sevOld \o sevNew)[i] = "Next"

\* C18: a run of game_event_handler that handles only Next events adds
\* their number to Progress and leaves Pattern and the state alone, a run
\* of update_score that handles only Next events leaves Score alone, and
\* no Next is lost: none is dropped from Events<SimonEvent> before
\* game_event_handler has read it, and none is left unread at the end of a
\* frame after which the state changes to MonkeySee (game_event_handler
\* does not run in the frame that follows, and the events of this frame
\* are dropped at the start of the one after).
C18_ContinueAppliedOnce ==
    /\ [][(Ran("game_event_handler") /\ OnlyNext(gehSeen)) =>
             /\ progress' = progress + Len(Unread(sevOld, sevNew, gehSeen))
             /\ pattern' = pattern /\ state' = state
             /\ nextState' = nextState /\ stateSwitch' = stateSwitch]_vars
    /\ [][(Ran("update_score") /\ OnlyNext(usSeen)) => score' = score]_vars
    /\ [][(pc = "Update" /\ pc' = "PreUpdate") =>
             /\ \A i \in (gehSeen + 1)..Len(sevOld) : sevOld[i] # "Next"
             /\ nextState = "MonkeySee" =>
                   Count(Unread(sevOld, sevNew, gehSeen), "Next") = 0]_vars

\* C20: whenever the state becomes MonkeyDo, Score.current is the length of
\* Pattern minus 1.
C20_ScoreIsLengthMinusOne ==
    [][EntersMonkeyDo => score.current = Len(pattern) - 1]_vars

====
